---- MODULE Spec2Model ----
(***************************************************************************)
(* SpeakFlow client: the session-completion pollers (web pollSessionStatus *)
(* and mobile api.waitForCompletion) and the mobile RecordScreen recording *)
(* flow with its useAudioRecorder hook.                                    *)
(***************************************************************************)
EXTENDS Integers, Sequences, FiniteSets, TLC

(* ---------------- bounds of the model ---------------- *)
\* largest explicit maxAttempts argument handed to a poller under test
MaxAttemptsArg == 3
\* number of handler invocations (button taps) on one RecordScreen
MaxHandlers == 3
\* the same against a prompt server, where flows are short
MaxHandlersPrompt == 4
\* non-terminal answers a prompt server gives per session
MaxPending == 0
\* the same number of taps where every awaited call is followed to its end
MaxHandlersLive == 2
\* largest `cycles` prop given to a BreathCircle
MaxCycles == 3
\* exhales a BreathCircle (web) is followed through beyond its `cycles`
MaxExtraCycles == 2
\* getUserMedia requests one OnboardingPage makes
MaxMicRequests == 2
\* login, register and logout calls made on one AuthProvider
MaxAuthCalls == 2

(* ---------------- program constants ---------------- *)
WebDefaultMaxAttempts == 120
WebDefaultInterval == 1000
MobileDefaultMaxAttempts == 60
MobileDefaultInterval == 2000
TimeoutStatus == 408
ProcessingFailedStatus == 500

(* ---------------- values ---------------- *)
\* JavaScript null / undefined
Null == "<null>"
\* an argument left out of a call
Omitted == -1
\* the `status` field of an error that is not an ApiError
NoStatus == 0

Falsy(x) == x \in {Null, ""}
\* JavaScript `x || d` on strings
OrElse(x, d) == IF Falsy(x) THEN d ELSE x
\* mutant: the default taken for a zero argument as well (`arg || d`)
DefaultOnFalsy(arg, d) == IF arg = Omitted \/ arg = 0 THEN d ELSE arg

\* a parameter with a default value
Default(arg, d) == IF arg = Omitted THEN d ELSE arg

Impls == {"web", "mobile"}
\* SessionStatus, plus one value outside the declared union
Statuses == {"pending", "processing", "completed", "failed", "queued"}
ErrorMessages == {Null, "", "Audio too short"}
Reports == {"reportA", "reportB"}
HttpCodes == {408, 500}
Details == {Null, "Session not found"}

StatusResponses == [status : Statuses, error_message : ErrorMessages]

\* how a request can fail: fetch rejects (net), or the server answers with a
\* non-2xx code and a body that is JSON (with or without `detail`) or not
Failures ==
  {[net |-> TRUE, code |-> NoStatus, json |-> FALSE, detail |-> Null]}
  \cup [net : {FALSE}, code : HttpCodes, json : {TRUE}, detail : Details]
  \cup [net : {FALSE}, code : HttpCodes, json : {FALSE}, detail : {Null}]

StatusText(code) ==
  CASE code = 408 -> "Request Timeout"
    [] code = 500 -> "Internal Server Error"
    [] OTHER -> ""

(* ---------------- errors ---------------- *)
NoError == [name |-> Null, status |-> NoStatus, message |-> Null]

ApiError(message, status) ==
  [name |-> "ApiError", status |-> status, message |-> message]

\* fetch() itself rejecting
FetchRejection ==
  [name |-> "TypeError", status |-> NoStatus, message |-> "Network request failed"]

\* web apiFetch: data = json or null; message = data?.detail || statusText
ApiFetchError(f) ==
  IF f.net THEN FetchRejection
  ELSE ApiError(OrElse(IF f.json THEN f.detail ELSE Null, StatusText(f.code)), f.code)

\* mobile handleResponse: error = json or {detail: 'Unknown error'}
HandleResponseError(f) ==
  IF f.net THEN FetchRejection
  ELSE ApiError(OrElse(IF f.json THEN f.detail ELSE "Unknown error", StatusText(f.code)), f.code)

RequestError(impl, f) ==
  IF impl = "web" THEN ApiFetchError(f) ELSE HandleResponseError(f)

\* mutant: the timeout thrown with the status of a processing failure
TimeoutErrorAs500(impl) ==
  ApiError("Processing timed out", ProcessingFailedStatus)

TimeoutError(impl) ==
  IF impl = "web" THEN ApiError("Processing timed out", TimeoutStatus)
  ELSE ApiError("Timeout waiting for processing to complete", TimeoutStatus)

\* mutant: the server's message dropped
ProcessingFailedErrorGeneric(impl, error_message) ==
  ApiError("Processing failed", ProcessingFailedStatus)

ProcessingFailedError(impl, error_message) ==
  ApiError(OrElse(error_message, "Processing failed"), ProcessingFailedStatus)

(* ---------------- the poller as a process ---------------- *)
\* pc: "new" not called, "status" awaiting the status request, "sleep"
\* awaiting the interval timer, "report" awaiting the report request, "done"
\* exit: which statement ended the call
NoPoller ==
  [impl |-> "web", pc |-> "new", maxAttempts |-> 0, interval |-> 0,
   onProgress |-> FALSE, attempts |-> 0, exit |-> Null,
   report |-> Null, err |-> NoError,
   statusCalls |-> 0, reportCalls |-> 0, progressCalls |-> 0, waits |-> 0]

\* loop condition `attempts < maxAttempts` / `i < maxAttempts`: either issue
\* the next status request or fall out of the loop and throw the timeout
\* mutant: off by one in the loop condition
PollLoopInclusive(q) ==
  IF q.attempts <= q.maxAttempts
  THEN [q EXCEPT !.pc = "status", !.statusCalls = @ + 1]
  ELSE [q EXCEPT !.pc = "done", !.exit = "timeout", !.err = TimeoutError(q.impl)]

PollLoop(q) ==
  IF q.attempts < q.maxAttempts
  THEN [q EXCEPT !.pc = "status", !.statusCalls = @ + 1]
  ELSE [q EXCEPT !.pc = "done", !.exit = "timeout", !.err = TimeoutError(q.impl)]

\* mutant: the mobile poller given the defaults of the web poller
PollCallWebDefaults(impl, maxAttemptsArg, intervalArg, onProgress) ==
  PollLoop([NoPoller EXCEPT
    !.impl = impl,
    !.maxAttempts = Default(maxAttemptsArg, WebDefaultMaxAttempts),
    !.interval = Default(intervalArg, WebDefaultInterval),
    !.onProgress = onProgress])

\* the call itself: bind the parameters, attempts = 0, enter the loop
PollCall(impl, maxAttemptsArg, intervalArg, onProgress) ==
  PollLoop([NoPoller EXCEPT
    !.impl = impl,
    !.maxAttempts = Default(maxAttemptsArg,
        IF impl = "web" THEN WebDefaultMaxAttempts ELSE MobileDefaultMaxAttempts),
    !.interval = Default(intervalArg,
        IF impl = "web" THEN WebDefaultInterval ELSE MobileDefaultInterval),
    !.onProgress = onProgress])

\* mutant: the callback skipped
PollNotifyNever(q) == q

\* `onProgress?.(...)` / `if (onProgress) onProgress(...)`
PollNotify(q) ==
  IF q.onProgress THEN [q EXCEPT !.progressCalls = @ + 1] ELSE q

\* mutant: the callback handed a fixed status
ProgressPayloadStale(impl, resp) ==
  IF impl = "web"
  THEN [form |-> "string", status |-> "pending", error_message |-> Null]
  ELSE [form |-> "response", status |-> "pending", error_message |-> resp.error_message]

\* what the callback is handed: web passes status.status, mobile the response
ProgressPayload(impl, resp) ==
  IF impl = "web"
  THEN [form |-> "string", status |-> resp.status, error_message |-> Null]
  ELSE [form |-> "response", status |-> resp.status, error_message |-> resp.error_message]

\* mutant: the report requested twice on `completed`
PollBranchFetchTwice(q, resp) ==
  IF resp.status = "completed"
  THEN [q EXCEPT !.pc = "report", !.reportCalls = @ + 2]
  ELSE IF resp.status = "failed"
  THEN [q EXCEPT !.pc = "done", !.exit = "failed",
                 !.err = ProcessingFailedError(q.impl, resp.error_message)]
  ELSE [q EXCEPT !.pc = "sleep", !.waits = @ + 1]

\* the branches after the callback
PollBranch(q, resp) ==
  IF resp.status = "completed"
  THEN [q EXCEPT !.pc = "report", !.reportCalls = @ + 1]
  ELSE IF resp.status = "failed"
  THEN [q EXCEPT !.pc = "done", !.exit = "failed",
                 !.err = ProcessingFailedError(q.impl, resp.error_message)]
  ELSE [q EXCEPT !.pc = "sleep", !.waits = @ + 1]

\* mutant: the next query issued without waiting for the interval
PollOnStatusNoWait(q, resp) ==
  LET q1 == PollBranch(PollNotify(q), resp) IN
  IF q1.pc = "sleep"
  THEN PollLoop([q1 EXCEPT !.attempts = @ + 1, !.waits = q.waits])
  ELSE q1

\* the status request resolved with resp
PollOnStatus(q, resp) == PollBranch(PollNotify(q), resp)

\* mutant: a failed status request swallowed and polling continued
PollOnStatusFailureSwallowed(q, f) ==
  [q EXCEPT !.pc = "sleep", !.waits = @ + 1]

\* the status request rejected: the await throws out of the function
PollOnStatusFailure(q, f) ==
  [q EXCEPT !.pc = "done", !.exit = "statusError", !.err = RequestError(q.impl, f)]

\* the interval timer fired: attempts++ and back to the loop condition
\* mutant: the attempt not counted
PollOnSleepUncounted(q) == PollLoop(q)

PollOnSleep(q) == PollLoop([q EXCEPT !.attempts = @ + 1])

\* mutant: the report handed over and the loop carried on
PollOnReportKeepsPolling(q, r) ==
  [q EXCEPT !.pc = "sleep", !.exit = "report", !.report = r]

\* the report request settled: the poller's promise settles the same way
PollOnReport(q, r) ==
  [q EXCEPT !.pc = "done", !.exit = "report", !.report = r]

PollOnReportFailure(q, f) ==
  [q EXCEPT !.pc = "done", !.exit = "reportError", !.err = RequestError(q.impl, f)]

(* ---------------- state ---------------- *)
VARIABLES
  poller,        \* the poller call under test
  server,        \* what the server does: "any", "stuck" in pending, "prompt",
                 \* or "settling" (any answer, and every call is settled)
  observed,      \* status responses the server has given to it, in order
  progressLog,   \* arguments its progress callback has received, in order
  faults         \* requests of it that failed: <<endpoint, failure>>, in order

harnessVars == <<poller, server, observed, progressLog, faults>>

\* RecordScreen (mobile) and its useAudioRecorder hook
VARIABLES
  mounted,          \* the screen is mounted
  phase,            \* useState<RecordingPhase>
  error,            \* useState<string | null>
  processingStatus, \* useState<string>
  navigated,        \* the params of the navigation.navigate('Report', ...) calls
  recordingRef,     \* recordingRef.current: a recording id, or 0 for null
  intervalRef,      \* intervalRef.current: a timer id, or 0 for null
  recState,         \* the hook's RecordingState (isRecording, uri)
  hwRecording,      \* recordings started and not yet stopped and unloaded
  timers,           \* interval timers set and not yet cleared
  handlers,         \* the invocations of handleStart/StopRecording
  nHandlers         \* how many there have been

uiVars == <<mounted, phase, error, processingStatus, navigated>>
recVars == <<recordingRef, intervalRef, recState, hwRecording, timers>>
screenVars == <<uiVars, recVars, handlers, nHandlers>>

\* the other stateful components, each a record of its props, its useState
\* values and what is pending for it
VARIABLES
  breath,        \* BreathCircle (web)
  mbreath,       \* BreathCircle (mobile)
  onboarding,    \* OnboardingPage
  auth           \* AuthProvider, with the token storage

componentVars == <<breath, mbreath, onboarding, auth>>
vars == <<harnessVars, screenVars, componentVars>>

HandlerIds == 1..(IF MaxHandlersPrompt > MaxHandlers THEN MaxHandlersPrompt ELSE MaxHandlers)
\* how many taps are followed: more of them when the server is prompt
TapLimit ==
  CASE server = "prompt" -> MaxHandlersPrompt
    [] server = "settling" -> MaxHandlersLive
    [] OTHER -> MaxHandlers
Uris == {Null, "", "file:///recording.m4a"}
PermissionError == "Microphone permission required"
NoRecordingError == "No recording found"
\* message of an error thrown by the platform's audio module
NativeError == "Audio module failure"
\* reading a property of recordingRef.current when it is null
NullDerefError == "Cannot read property 'getURI' of null"

\* what the server and the network do to the screen's requests: the declared
\* statuses, a failed one with and without a message (error_message is read
\* of a failed status only); a rejected fetch or a 500 answer
ScreenStatusResponses ==
  {r \in [status : {"pending", "processing", "completed", "failed"},
          error_message : {Null, "Audio too short"}] :
     r.status = "failed" \/ r.error_message = Null}
ScreenFailures == {f \in Failures : f.net \/ (f.code = 500 /\ f.json /\ f.detail = Null)}

\* one invocation of a handler.  kind: "start" | "stop".  pc: the await it is
\* suspended at, or "done".  perm: the answer to its permission request.
\* target: the recording its stopAndUnloadAsync was called on.  uri: what its
\* recorder.stopRecording() returned (returned = it did return).  set: the
\* setPhase calls it made.  shown: the message it passed to setError.
NoHandler ==
  [kind |-> "none", pc |-> "none", perm |-> "unknown", startedHw |-> FALSE,
   target |-> 0, returned |-> FALSE, uri |-> Null, set |-> <<>>,
   shown |-> Null, uploadCalls |-> 0, pollCalls |-> 0, poll |-> NoPoller]

IdleRecState == [isRecording |-> FALSE, uri |-> Null]

InitScreen ==
  /\ mounted = TRUE
  /\ phase = "idle"
  /\ error = Null
  /\ processingStatus = ""
  /\ navigated = <<>>
  /\ recordingRef = 0
  /\ intervalRef = 0
  /\ recState = IdleRecState
  /\ hwRecording = {}
  /\ timers = {}
  /\ handlers = [h \in HandlerIds |-> NoHandler]
  /\ nHandlers = 0

InitHarness ==
  /\ poller = NoPoller
  /\ server = "any"
  /\ observed = <<>>
  /\ progressLog = <<>>
  /\ faults = <<>>

(* ---------------- the other components, not mounted ---------------- *)
\* BreathCircle (web): props isActive, cycles, inhaleSeconds, exhaleSeconds;
\* state phase, cycleCount, scale (in tenths); timer: the delay in ms of the
\* pending timeout of its effect, 0 for none; completeCalls: onBreathComplete
\* invocations since isActive became true
NoBreath ==
  [mounted |-> FALSE, isActive |-> FALSE, cycles |-> 0,
   inhaleSeconds |-> 0, exhaleSeconds |-> 0,
   phase |-> "inhale", cycleCount |-> 0, scale |-> 7,
   timer |-> 0, completeCalls |-> 0]

\* BreathCircle (mobile): props cycles and the three durations; state
\* isActive, phase, currentCycle, secondsRemaining, isComplete;
\* completeCalls: onComplete invocations
NoMBreath ==
  [mounted |-> FALSE, cycles |-> 0,
   inhaleSeconds |-> 0, holdSeconds |-> 0, exhaleSeconds |-> 0,
   isActive |-> FALSE, phase |-> "inhale", currentCycle |-> 1,
   secondsRemaining |-> 0, isComplete |-> FALSE, completeCalls |-> 0]

\* OnboardingPage: state currentSlide and micPermission as last rendered;
\* pending: state updates enqueued by timer and promise callbacks and not
\* yet rendered; queryPending: permissions.query in flight; micRequests:
\* getUserMedia calls in flight, requested: all of them; advanceTimers: the
\* 500 ms timeouts pending; complete: completeOnboarding() was called;
\* route: where router.push went
NoOnboarding ==
  [mounted |-> FALSE, currentSlide |-> 0, micPermission |-> "prompt",
   pending |-> <<>>, queryPending |-> FALSE, micRequests |-> 0,
   requested |-> 0, advanceTimers |-> 0, complete |-> FALSE, route |-> Null]

\* AuthProvider: token is what localStorage holds under the token key;
\* state user, isLoading, error; route: the last router.push; calls: the
\* invocations of checkAuth, login and register, each with the request it
\* awaits (pc) or how it ended; made: login/register/logout calls so far
NoAuth ==
  [mounted |-> FALSE, token |-> Null, user |-> Null, isLoading |-> TRUE,
   error |-> Null, route |-> Null, calls |-> <<>>, made |-> 0]

InitComponents ==
  /\ breath = NoBreath
  /\ mbreath = NoMBreath
  /\ onboarding = NoOnboarding
  /\ auth = NoAuth

(* ---------------- a poller called directly ---------------- *)
\* either explicit small maxAttempts against an arbitrary server, or the
\* defaults against a server whose job never leaves `pending`
InitPoller ==
  /\ \E impl \in Impls, cb \in BOOLEAN :
       \/ /\ server = "any"
          /\ \E n \in 0..MaxAttemptsArg : poller = PollCall(impl, n, Omitted, cb)
       \/ /\ server = "stuck"
          /\ poller = PollCall(impl, Omitted, Omitted, cb)
  /\ observed = <<>>
  /\ progressLog = <<>>
  /\ faults = <<>>
  /\ InitScreen
  /\ InitComponents

ServerAnswers ==
  IF server = "stuck"
  THEN {[status |-> "pending", error_message |-> Null]}
  ELSE StatusResponses

ServerFailures == IF server = "stuck" THEN {} ELSE Failures

StatusResolves ==
  /\ poller.pc = "status"
  /\ \E resp \in ServerAnswers :
       /\ poller' = PollOnStatus(poller, resp)
       /\ observed' = Append(observed, resp)
       /\ progressLog' = IF poller.onProgress
                         THEN Append(progressLog, ProgressPayload(poller.impl, resp))
                         ELSE progressLog
  /\ UNCHANGED <<server, faults>>
  /\ UNCHANGED <<screenVars, componentVars>>

StatusRejects ==
  /\ poller.pc = "status"
  /\ \E f \in ServerFailures :
       /\ poller' = PollOnStatusFailure(poller, f)
       /\ faults' = Append(faults, <<"status", f>>)
  /\ UNCHANGED <<server, observed, progressLog>>
  /\ UNCHANGED <<screenVars, componentVars>>

IntervalElapses ==
  /\ poller.pc = "sleep"
  /\ poller' = PollOnSleep(poller)
  /\ UNCHANGED <<server, observed, progressLog, faults>>
  /\ UNCHANGED <<screenVars, componentVars>>

ReportResolves ==
  /\ poller.pc = "report"
  /\ \E r \in Reports : poller' = PollOnReport(poller, r)
  /\ UNCHANGED <<server, observed, progressLog, faults>>
  /\ UNCHANGED <<screenVars, componentVars>>

ReportRejects ==
  /\ poller.pc = "report"
  /\ \E f \in ServerFailures :
       /\ poller' = PollOnReportFailure(poller, f)
       /\ faults' = Append(faults, <<"report", f>>)
  /\ UNCHANGED <<server, observed, progressLog>>
  /\ UNCHANGED <<screenVars, componentVars>>

NextPoller ==
  \/ StatusResolves
  \/ StatusRejects
  \/ IntervalElapses
  \/ ReportResolves
  \/ ReportRejects

SpecPoller == InitPoller /\ [][NextPoller]_vars

\* the same with every request settling and every setTimeout firing: an
\* outstanding status request resolves or rejects, a wait elapses, an
\* outstanding report request resolves or rejects
SpecPollerLive ==
  /\ SpecPoller
  /\ WF_vars(StatusResolves \/ StatusRejects)
  /\ WF_vars(IntervalElapses)
  /\ WF_vars(ReportResolves \/ ReportRejects)

(* ---------------- RecordScreen ---------------- *)
\* a state setter called after the screen was unmounted changes nothing
SetPhaseTo(p) == IF mounted THEN p ELSE phase
SetErrorTo(m) == IF mounted THEN m ELSE error

\* a finished invocation keeps what it did (perm, the uri it got back, set,
\* shown, uploadCalls) and how its poller ended; its other locals are gone
Finished(hr) ==
  IF hr.pc # "done" THEN hr
  ELSE [hr EXCEPT
          !.target = 0,
          !.uri = IF hr.returned THEN @ ELSE Null,
          !.poll = IF hr.poll.pc # "done" THEN @
                   ELSE [NoPoller EXCEPT !.impl = hr.poll.impl, !.pc = "done",
                                         !.exit = hr.poll.exit,
                                         !.report = hr.poll.report]]

\* replace invocation h by hr2 and apply the setPhase / setError it made
Commit(h, hr2) ==
  /\ handlers' = [handlers EXCEPT ![h] = Finished(hr2)]
  /\ phase' = IF Len(hr2.set) > Len(handlers[h].set)
              THEN SetPhaseTo(hr2.set[Len(hr2.set)]) ELSE phase
  /\ error' = IF hr2.shown # handlers[h].shown THEN SetErrorTo(hr2.shown) ELSE error

\* mutant: the permission answer ignored
PermissionGrantedAlways(answer) == TRUE

\* startRecording: `if (!granted) throw`
PermissionGranted(answer) == answer = "granted"

\* mutant: the check of the uri left out
NoAudioNever(uri) == FALSE

\* handleStopRecording: `if (!uri)`
NoAudio(uri) == Falsy(uri)

\* handleStartRecording's catch: setError(e.message)
StartCatch(hr, msg) == [hr EXCEPT !.pc = "done", !.shown = msg]

\* mutant: the catch without its setPhase('idle')
StopCatchKeepsPhase(hr, msg) == [hr EXCEPT !.pc = "done", !.shown = msg]

\* handleStopRecording's catch: setError(e.message); setPhase('idle')
StopCatch(hr, msg) ==
  [hr EXCEPT !.pc = "done", !.shown = msg, !.set = Append(@, "idle")]

\* mutant: the no-audio branch returning without setPhase('idle')
AfterStopKeepsPhase(hr, uri) ==
  IF NoAudio(uri)
  THEN [hr EXCEPT !.returned = TRUE, !.uri = uri, !.pc = "done",
                  !.shown = NoRecordingError]
  ELSE [hr EXCEPT !.returned = TRUE, !.uri = uri, !.pc = "upload",
                  !.set = Append(@, "uploading"), !.uploadCalls = @ + 1]

\* handleStopRecording once recorder.stopRecording() has returned uri
AfterStop(hr, uri) ==
  IF NoAudio(uri)
  THEN [hr EXCEPT !.returned = TRUE, !.uri = uri, !.pc = "done",
                  !.shown = NoRecordingError, !.set = Append(@, "idle")]
  ELSE [hr EXCEPT !.returned = TRUE, !.uri = uri, !.pc = "upload",
                  !.set = Append(@, "uploading"), !.uploadCalls = @ + 1]

\* handleStopRecording once createSession has resolved
AfterUpload(hr) ==
  [hr EXCEPT !.pc = "poll", !.set = Append(@, "processing"),
             !.pollCalls = @ + 1,
             !.poll = PollCall("mobile", Omitted, Omitted, TRUE)]

\* mutant: the session polled once more after its report has arrived
AfterPollTwice(hr, q) ==
  IF q.pc # "done" THEN [hr EXCEPT !.poll = q]
  ELSE IF q.exit = "report" /\ hr.pollCalls < 2
  THEN [hr EXCEPT !.pollCalls = @ + 1,
                  !.poll = PollCall("mobile", Omitted, Omitted, TRUE)]
  ELSE IF q.exit = "report"
  THEN [hr EXCEPT !.poll = q, !.pc = "done", !.set = Append(@, "idle")]
  ELSE StopCatch([hr EXCEPT !.poll = q], q.err.message)

\* handleStopRecording while and after api.waitForCompletion runs as q
AfterPoll(hr, q) ==
  IF q.pc # "done" THEN [hr EXCEPT !.poll = q]
  ELSE IF q.exit = "report"
  THEN [hr EXCEPT !.poll = q, !.pc = "done", !.set = Append(@, "idle")]
  ELSE StopCatch([hr EXCEPT !.poll = q], q.err.message)

At(h, kind, pc) == handlers[h].kind = kind /\ handlers[h].pc = pc

\* the record button, shown while phase is idle
TapStart ==
  /\ mounted /\ phase = "idle" /\ nHandlers < TapLimit
  /\ nHandlers' = nHandlers + 1
  /\ handlers' = [handlers EXCEPT ![nHandlers + 1] =
                    [NoHandler EXCEPT !.kind = "start", !.pc = "perm"]]
  /\ error' = Null
  /\ UNCHANGED <<harnessVars, componentVars, mounted, phase, processingStatus, navigated, recVars>>

PermissionAnswered(h) ==
  /\ At(h, "start", "perm")
  /\ \E answer \in {"granted", "denied"} :
       LET hr == [handlers[h] EXCEPT !.perm = answer] IN
       IF PermissionGranted(answer)
       THEN Commit(h, [hr EXCEPT !.pc = "starting"])
       ELSE Commit(h, StartCatch(hr, PermissionError))
  /\ UNCHANGED <<harnessVars, componentVars, mounted, processingStatus, navigated, recVars, nHandlers>>

\* setAudioModeAsync, prepareToRecordAsync and startAsync are awaited one after
\* the other with nothing in between that other code can see: they are one
\* stage, "starting".  When the last has resolved: the refs, the metering
\* timer, the hook's state, and back in handleStartRecording
\* setPhase('recording')
RecordingStarted(h) ==
  /\ At(h, "start", "starting")
  /\ hwRecording' = hwRecording \cup {h}
  /\ recordingRef' = h
  /\ intervalRef' = h
  /\ timers' = timers \cup {h}
  /\ recState' = IF mounted THEN [isRecording |-> TRUE, uri |-> Null] ELSE recState
  /\ Commit(h, [handlers[h] EXCEPT !.pc = "done", !.startedHw = TRUE,
                                   !.set = Append(@, "recording")])
  /\ UNCHANGED <<harnessVars, componentVars, mounted, processingStatus, navigated, nHandlers>>

\* any of the awaited audio calls of startRecording rejects
StartRejects(h) ==
  /\ handlers[h].kind = "start"
  /\ handlers[h].pc \in {"perm", "starting"}
  /\ Commit(h, StartCatch(handlers[h], NativeError))
  /\ UNCHANGED <<harnessVars, componentVars, mounted, processingStatus, navigated, recVars, nHandlers>>

\* the stop button, shown while phase is recording
TapStop ==
  /\ mounted /\ phase = "recording" /\ nHandlers < TapLimit
  /\ nHandlers' = nHandlers + 1
  /\ LET h == nHandlers + 1
         hr == [NoHandler EXCEPT !.kind = "stop"] IN
     IF recordingRef = 0
     THEN /\ handlers' = [handlers EXCEPT ![h] = Finished(AfterStop(hr, Null))]
          /\ phase' = AfterStop(hr, Null).set[1]
          /\ error' = AfterStop(hr, Null).shown
          /\ UNCHANGED <<intervalRef, timers>>
     ELSE /\ handlers' = [handlers EXCEPT ![h] =
                            [hr EXCEPT !.pc = "stopUnload", !.target = recordingRef]]
          /\ intervalRef' = 0
          /\ timers' = timers \ {intervalRef}
          /\ UNCHANGED <<phase, error>>
  /\ UNCHANGED <<harnessVars, componentVars, mounted, processingStatus, navigated,
                 recordingRef, recState, hwRecording>>

\* stopAndUnloadAsync resolved; then recordingRef.current.getURI()
RecordingUnloaded(h) ==
  /\ At(h, "stop", "stopUnload")
  /\ hwRecording' = hwRecording \ {handlers[h].target}
  /\ IF recordingRef = 0
     THEN /\ Commit(h, StopCatch(handlers[h], NullDerefError))
          /\ UNCHANGED recordingRef
     ELSE /\ \E uri \in Uris :
               Commit(h, [handlers[h] EXCEPT !.pc = "audioMode", !.uri = uri,
                                             !.target = 0])
          /\ recordingRef' = 0
  /\ UNCHANGED <<harnessVars, componentVars, mounted, processingStatus, navigated,
                 intervalRef, recState, timers, nHandlers>>

\* setAudioModeAsync resolved: stopRecording returns the uri
StopReturns(h) ==
  /\ At(h, "stop", "audioMode")
  /\ recState' = IF mounted
                 THEN [isRecording |-> FALSE, uri |-> handlers[h].uri] ELSE recState
  /\ Commit(h, AfterStop(handlers[h], handlers[h].uri))
  /\ UNCHANGED <<harnessVars, componentVars, mounted, processingStatus, navigated,
                 recordingRef, intervalRef, hwRecording, timers, nHandlers>>

\* stopAndUnloadAsync or setAudioModeAsync rejects
StopRejects(h) ==
  /\ handlers[h].kind = "stop"
  /\ handlers[h].pc \in {"stopUnload", "audioMode"}
  /\ Commit(h, StopCatch(handlers[h], NativeError))
  /\ UNCHANGED <<harnessVars, componentVars, mounted, processingStatus, navigated, recVars, nHandlers>>

UploadResolves(h) ==
  /\ At(h, "stop", "upload")
  /\ Commit(h, AfterUpload(handlers[h]))
  /\ UNCHANGED <<harnessVars, componentVars, mounted, processingStatus, navigated, recVars, nHandlers>>

UploadRejects(h) ==
  /\ At(h, "stop", "upload")
  /\ \E f \in ScreenFailures :
       Commit(h, StopCatch(handlers[h], HandleResponseError(f).message))
  /\ UNCHANGED <<harnessVars, componentVars, mounted, processingStatus, navigated, recVars, nHandlers>>

Polling(h, pc) == At(h, "stop", "poll") /\ handlers[h].poll.pc = pc

\* a status answer arrives: the callback handed to waitForCompletion runs,
\* setProcessingStatus(status.status), and the loop goes on.  On a non-terminal
\* status the poller sleeps and then asks again; nothing the screen or
\* another invocation can see happens between the answer and the next request,
\* so the sleep is part of this step
PollOnStatusThenSleep(q, resp) ==
  LET q1 == PollOnStatus(q, resp) IN
  IF q1.pc = "sleep" THEN PollOnSleep(q1) ELSE q1

\* what the server answers to a status query of poller q: anything in
\* general; a prompt server has the job finished after MaxPending answers
ScreenAnswers(q) ==
  IF server = "prompt" /\ q.statusCalls > MaxPending
  THEN {r \in ScreenStatusResponses : r.status \in {"completed", "failed"}}
  ELSE ScreenStatusResponses

ScreenStatusResolves(h) ==
  /\ Polling(h, "status")
  /\ \E resp \in ScreenAnswers(handlers[h].poll) :
       /\ Commit(h, AfterPoll(handlers[h], PollOnStatusThenSleep(handlers[h].poll, resp)))
       /\ processingStatus' =
            IF mounted /\ handlers[h].poll.onProgress
            THEN ProgressPayload("mobile", resp).status ELSE processingStatus
  /\ UNCHANGED <<harnessVars, componentVars, mounted, navigated, recVars, nHandlers>>

ScreenStatusRejects(h) ==
  /\ Polling(h, "status")
  /\ \E f \in ScreenFailures :
       Commit(h, AfterPoll(handlers[h], PollOnStatusFailure(handlers[h].poll, f)))
  /\ UNCHANGED <<harnessVars, componentVars, mounted, processingStatus, navigated, recVars, nHandlers>>

\* mutant: the Report screen opened without the report
ReportParamsEmpty(q) == [report |-> Null]

\* navigation.navigate('Report', { report }) with what the poller q returned
ReportParams(q) == [report |-> q.report]

\* the report arrived: navigate('Report', {report}); setPhase('idle');
\* recorder.resetRecording()
ScreenReportResolves(h) ==
  /\ Polling(h, "report")
  /\ \E r \in Reports :
       LET q == PollOnReport(handlers[h].poll, r) IN
       /\ Commit(h, AfterPoll(handlers[h], q))
       /\ navigated' = Append(navigated, ReportParams(q))
  /\ recState' = IF mounted THEN IdleRecState ELSE recState
  /\ UNCHANGED <<harnessVars, componentVars, mounted, processingStatus,
                 recordingRef, intervalRef, hwRecording, timers, nHandlers>>

ScreenReportRejects(h) ==
  /\ Polling(h, "report")
  /\ \E f \in ScreenFailures :
       Commit(h, AfterPoll(handlers[h], PollOnReportFailure(handlers[h].poll, f)))
  /\ UNCHANGED <<harnessVars, componentVars, mounted, processingStatus, navigated, recVars, nHandlers>>

\* the user leaves the screen: the component's state is discarded and only
\* the hook's cleanup effect runs (it stops the recording and clears the
\* timer the refs point to, and leaves the refs as they are)
Unmount ==
  /\ mounted
  /\ mounted' = FALSE
  /\ phase' = "idle"
  /\ error' = Null
  /\ processingStatus' = ""
  /\ recState' = IdleRecState
  /\ hwRecording' = hwRecording \ {recordingRef}
  /\ timers' = timers \ {intervalRef}
  /\ UNCHANGED <<harnessVars, componentVars, navigated, recordingRef, intervalRef, handlers, nHandlers>>

Init == InitHarness /\ InitScreen /\ InitComponents

Next ==
  \/ TapStart
  \/ TapStop
  \/ Unmount
  \/ \E h \in HandlerIds :
       \/ PermissionAnswered(h)
       \/ RecordingStarted(h)
       \/ StartRejects(h)
       \/ RecordingUnloaded(h)
       \/ StopReturns(h)
       \/ StopRejects(h)
       \/ UploadResolves(h)
       \/ UploadRejects(h)
       \/ ScreenStatusResolves(h)
       \/ ScreenStatusRejects(h)
       \/ ScreenReportResolves(h)
       \/ ScreenReportRejects(h)

Spec == Init /\ [][Next]_vars

\* the same screen against a prompt server
InitPrompt ==
  /\ poller = NoPoller
  /\ server = "prompt"
  /\ observed = <<>>
  /\ progressLog = <<>>
  /\ faults = <<>>
  /\ InitScreen
  /\ InitComponents

SpecPrompt == InitPrompt /\ [][Next]_vars

\* an awaited call of invocation h settles: the permission request, the audio
\* calls, the upload, a status or the report request resolves or rejects
Settles(h) ==
  \/ PermissionAnswered(h)
  \/ RecordingStarted(h)
  \/ StartRejects(h)
  \/ RecordingUnloaded(h)
  \/ StopReturns(h)
  \/ StopRejects(h)
  \/ UploadResolves(h)
  \/ UploadRejects(h)
  \/ ScreenStatusResolves(h)
  \/ ScreenStatusRejects(h)
  \/ ScreenReportResolves(h)
  \/ ScreenReportRejects(h)

\* the screen with every awaited call settling and a user who presses the
\* stop button when it is shown; nothing obliges the user to start a
\* recording or to leave the screen
InitLive ==
  /\ poller = NoPoller
  /\ server = "settling"
  /\ observed = <<>>
  /\ progressLog = <<>>
  /\ faults = <<>>
  /\ InitScreen
  /\ InitComponents

SpecLive ==
  /\ InitLive
  /\ [][Next]_vars
  /\ WF_vars(TapStop)
  /\ \A h \in HandlerIds : WF_vars(Settles(h))

(* ---------------- BreathCircle (web) ---------------- *)
\* the timer effect, run after a render in which one of its dependencies
\* changed (its cleanup has cleared the previous timeout): reset when not
\* active, else setScale(1) and a new timeout for the current phase
BreathEffect(b) ==
  IF ~b.isActive
  THEN [b EXCEPT !.phase = "inhale", !.cycleCount = 0, !.scale = 7,
                 !.timer = 0]
  ELSE [b EXCEPT !.scale = 10,
                 !.timer = 1000 * (IF b.phase = "inhale" THEN b.inhaleSeconds
                                   ELSE b.exhaleSeconds)]

\* handlePhaseTransition, the callback of the timeout
HandlePhaseTransition(b) ==
  IF ~b.isActive THEN b
  ELSE IF b.phase = "inhale"
  THEN [b EXCEPT !.phase = "exhale", !.scale = 7]
  ELSE LET newCount == b.cycleCount + 1 IN
       IF b.cycles > 0 /\ newCount >= b.cycles
       THEN [b EXCEPT !.cycleCount = newCount, !.completeCalls = @ + 1]
       ELSE [b EXCEPT !.cycleCount = newCount, !.phase = "inhale", !.scale = 10]

\* the label under the circle: `{cycleCount + 1} of {cycles}`
CycleLabel(b) == <<b.cycleCount + 1, b.cycles>>

\* the component mounted with its props: the defaults, useState's initial
\* values and the first run of the effect
BreathMount(isActive, cycles, inhaleSeconds, exhaleSeconds) ==
  BreathEffect([NoBreath EXCEPT
    !.mounted = TRUE,
    !.isActive = isActive,
    !.cycles = Default(cycles, 3),
    !.inhaleSeconds = Default(inhaleSeconds, 6),
    !.exhaleSeconds = Default(exhaleSeconds, 8)])

\* mounted by its parent with some isActive and cycles (0 = no limit), with
\* the default durations or others
InitBreath ==
  /\ InitHarness /\ InitScreen
  /\ \E a \in BOOLEAN, n \in {Omitted} \cup 0..MaxCycles,
        i \in {Omitted, 4}, e \in {Omitted, 4} :
       breath = BreathMount(a, n, i, e)
  /\ mbreath = NoMBreath /\ onboarding = NoOnboarding /\ auth = NoAuth

\* the timeout fires; the state it sets makes the effect run again
BreathTimerFires ==
  /\ breath.mounted /\ breath.timer > 0
  /\ breath.cycleCount < MaxCycles + MaxExtraCycles
  /\ breath' = BreathEffect(HandlePhaseTransition(breath))
  /\ UNCHANGED <<harnessVars, screenVars, mbreath, onboarding, auth>>

\* the parent renders it with the other value of isActive
BreathSetActive ==
  /\ breath.mounted
  /\ breath' = BreathEffect([breath EXCEPT !.isActive = ~@, !.completeCalls = 0])
  /\ UNCHANGED <<harnessVars, screenVars, mbreath, onboarding, auth>>

\* the parent unmounts it: the effect's cleanup clears the timeout
BreathUnmount ==
  /\ breath.mounted
  /\ breath' = [breath EXCEPT !.mounted = FALSE, !.timer = 0]
  /\ UNCHANGED <<harnessVars, screenVars, mbreath, onboarding, auth>>

NextBreath ==
  \/ BreathTimerFires
  \/ BreathSetActive
  \/ BreathUnmount

SpecBreath == InitBreath /\ [][NextBreath]_vars

(* ---------------- BreathCircle (mobile) ---------------- *)
\* the component mounted with its props: the defaults and useState's
\* initial values
MBreathMount(cycles, inhaleSeconds, holdSeconds, exhaleSeconds) ==
  [NoMBreath EXCEPT
    !.mounted = TRUE,
    !.cycles = Default(cycles, 3),
    !.inhaleSeconds = Default(inhaleSeconds, 4),
    !.holdSeconds = Default(holdSeconds, 4),
    !.exhaleSeconds = Default(exhaleSeconds, 4),
    !.secondsRemaining = Default(inhaleSeconds, 4)]

\* mutant: the countdown without its floor
CountdownNoFloor(prev) == prev - 1

\* the updater of the countdown interval: prev > 1 ? prev - 1 : prev
Countdown(prev) == IF prev > 1 THEN prev - 1 ELSE prev

\* the callback of the phase timeout
PhaseTimeout(b) ==
  IF b.phase = "inhale"
  THEN [b EXCEPT !.phase = "hold", !.secondsRemaining = b.holdSeconds]
  ELSE IF b.phase = "hold"
  THEN [b EXCEPT !.phase = "exhale", !.secondsRemaining = b.exhaleSeconds]
  ELSE IF b.currentCycle < b.cycles
  THEN [b EXCEPT !.currentCycle = @ + 1, !.phase = "inhale",
                 !.secondsRemaining = b.inhaleSeconds]
  ELSE [b EXCEPT !.isComplete = TRUE, !.isActive = FALSE,
                 !.completeCalls = @ + 1]

\* the timers of both effects exist while isActive && !isComplete
MBreathRunning == mbreath.mounted /\ mbreath.isActive /\ ~mbreath.isComplete

\* whole positive numbers of cycles and of seconds, given or left out
InitMBreath ==
  /\ InitHarness /\ InitScreen
  /\ breath = NoBreath /\ onboarding = NoOnboarding /\ auth = NoAuth
  /\ \E n \in {Omitted} \cup 1..MaxCycles, i, h, e \in {Omitted, 1, 2} :
       mbreath = MBreathMount(n, i, h, e)

\* the button while not active and not complete: handleStart
MBreathStart ==
  /\ mbreath.mounted /\ ~mbreath.isComplete /\ ~mbreath.isActive
  /\ mbreath' = [mbreath EXCEPT
        !.isActive = TRUE, !.phase = "inhale", !.currentCycle = 1,
        !.secondsRemaining = mbreath.inhaleSeconds, !.isComplete = FALSE]
  /\ UNCHANGED <<harnessVars, screenVars, breath, onboarding, auth>>

\* the button while active: handleStop
MBreathStop ==
  /\ mbreath.mounted /\ ~mbreath.isComplete /\ mbreath.isActive
  /\ mbreath' = [mbreath EXCEPT !.isActive = FALSE]
  /\ UNCHANGED <<harnessVars, screenVars, breath, onboarding, auth>>

\* the countdown interval fires
MBreathTick ==
  /\ MBreathRunning
  /\ mbreath' = [mbreath EXCEPT !.secondsRemaining = Countdown(@)]
  /\ UNCHANGED <<harnessVars, screenVars, breath, onboarding, auth>>

\* the phase timeout fires
MBreathPhaseTimeout ==
  /\ MBreathRunning
  /\ mbreath' = PhaseTimeout(mbreath)
  /\ UNCHANGED <<harnessVars, screenVars, breath, onboarding, auth>>

MBreathUnmount ==
  /\ mbreath.mounted
  /\ mbreath' = [mbreath EXCEPT !.mounted = FALSE]
  /\ UNCHANGED <<harnessVars, screenVars, breath, onboarding, auth>>

NextMBreath ==
  \/ MBreathStart
  \/ MBreathStop
  \/ MBreathTick
  \/ MBreathPhaseTimeout
  \/ MBreathUnmount

SpecMBreath == InitMBreath /\ [][NextMBreath]_vars

(* ---------------- OnboardingPage ---------------- *)
SLIDES == <<"welcome", "how-it-works", "microphone", "ready">>
\* SLIDES.indexOf(id) and SLIDES[i], indices from 0
IndexOf(id) == (CHOOSE i \in 1..Len(SLIDES) : SLIDES[i] = id) - 1
SlideAt(i) == IF i + 1 \in 1..Len(SLIDES) THEN SLIDES[i + 1] ELSE Null

\* a state update: setCurrentSlide(v), setCurrentSlide(prev => prev + v) or
\* setMicPermission(v)
SetSlide(v) == [var |-> "slide", fn |-> "set", val |-> v, mic |-> Null]
AddSlide(v) == [var |-> "slide", fn |-> "add", val |-> v, mic |-> Null]
SetMic(m) == [var |-> "mic", fn |-> "set", val |-> 0, mic |-> m]

\* a setter called on the unmounted page does nothing
Enqueue(o, u) == IF o.mounted THEN [o EXCEPT !.pending = Append(@, u)] ELSE o

ApplyUpdate(o, u) ==
  IF u.var = "mic" THEN [o EXCEPT !.micPermission = u.mic]
  ELSE IF u.fn = "set" THEN [o EXCEPT !.currentSlide = u.val]
  ELSE [o EXCEPT !.currentSlide = @ + u.val]

\* React renders: the enqueued updates are applied in the order of the calls
RECURSIVE Flush(_)
Flush(o) ==
  IF o.pending = <<>> THEN o
  ELSE Flush([ApplyUpdate(o, Head(o.pending)) EXCEPT !.pending = Tail(o.pending)])

\* the handlers, reading currentSlide and micPermission of the render they
\* were created in
HandleNext(o) ==
  IF o.currentSlide < Len(SLIDES) - 1 THEN Enqueue(o, AddSlide(1)) ELSE o

HandleBack(o) ==
  IF o.currentSlide > 0 THEN Enqueue(o, AddSlide(-1)) ELSE o

\* handleRequestMicrophone up to its await
HandleRequestMicrophone(o) ==
  [o EXCEPT !.micRequests = @ + 1, !.requested = @ + 1]

\* completeOnboarding(); router.push(...): the page is left
HandleComplete(o) ==
  [o EXCEPT !.complete = TRUE, !.route = "/app/daily", !.mounted = FALSE,
            !.pending = <<>>]

HandleSkip(o) ==
  [o EXCEPT !.complete = TRUE, !.route = "/app", !.mounted = FALSE,
            !.pending = <<>>]

\* the primary button of the footer, by what is rendered
PrimaryButton(o) ==
  IF SlideAt(o.currentSlide) = "microphone" /\ o.micPermission # "granted"
  THEN HandleRequestMicrophone(o)
  ELSE IF SlideAt(o.currentSlide) = "ready" THEN HandleComplete(o)
  ELSE HandleNext(o)

\* the label of that button
PrimaryLabel(o) ==
  IF SlideAt(o.currentSlide) = "microphone" /\ o.micPermission # "granted"
  THEN (IF o.micPermission = "denied" THEN "Continue anyway"
        ELSE "Enable microphone")
  ELSE IF SlideAt(o.currentSlide) = "ready" THEN "Begin your practice"
  ELSE "Continue"

Keys == {"ArrowRight", " ", "ArrowLeft", "Escape", "a"}

HandleKeyDown(o, key) ==
  IF key \in {"ArrowRight", " "}
  THEN IF o.currentSlide = IndexOf("microphone") /\ o.micPermission # "granted"
       THEN HandleRequestMicrophone(o)
       ELSE IF o.currentSlide = Len(SLIDES) - 1 THEN HandleComplete(o)
       ELSE HandleNext(o)
  ELSE IF key = "ArrowLeft" THEN HandleBack(o)
  ELSE IF key = "Escape" THEN HandleSkip(o)
  ELSE o

\* a click or key event: the handler runs, and React renders before the
\* next event
AfterEvent(o) == Flush(o)

\* mounted: slide 0, permission `prompt`, the permissions query under way
\* where the browser has the Permissions API
InitOnboarding ==
  /\ InitHarness /\ InitScreen
  /\ breath = NoBreath /\ mbreath = NoMBreath /\ auth = NoAuth
  /\ \E api \in BOOLEAN :
       onboarding = [NoOnboarding EXCEPT !.mounted = TRUE, !.queryPending = api]

OnboardingStep(o2) ==
  /\ onboarding' = o2
  /\ UNCHANGED <<harnessVars, screenVars, breath, mbreath, auth>>

Requestable(o) == o.requested < MaxMicRequests

PressPrimary ==
  /\ onboarding.mounted
  /\ PrimaryLabel(onboarding) \in {"Continue anyway", "Enable microphone"}
       => Requestable(onboarding)
  /\ OnboardingStep(AfterEvent(PrimaryButton(onboarding)))

\* the Back button, rendered on all but the first slide
PressBack ==
  /\ onboarding.mounted /\ onboarding.currentSlide > 0
  /\ OnboardingStep(AfterEvent(HandleBack(onboarding)))

PressSkip ==
  /\ onboarding.mounted
  /\ OnboardingStep(AfterEvent(HandleSkip(onboarding)))

\* a dot of the SlideIndicator: onSelect(index), which is setCurrentSlide
SelectSlide ==
  /\ onboarding.mounted
  /\ \E index \in 0..(Len(SLIDES) - 1) :
       OnboardingStep(AfterEvent(Enqueue(onboarding, SetSlide(index))))

KeyDown ==
  /\ onboarding.mounted
  /\ \E key \in Keys :
       /\ HandleKeyDown(onboarding, key).requested > onboarding.requested
            => Requestable(onboarding)
       /\ OnboardingStep(AfterEvent(HandleKeyDown(onboarding, key)))

\* permissions.query settles: its state, or `prompt` when it rejects
QuerySettles ==
  /\ onboarding.queryPending
  /\ \E m \in {"prompt", "granted", "denied"} :
       OnboardingStep(Enqueue([onboarding EXCEPT !.queryPending = FALSE], SetMic(m)))

\* getUserMedia resolves: setMicPermission('granted') and the 500 ms timeout
MicGranted ==
  /\ onboarding.micRequests > 0
  /\ OnboardingStep(Enqueue([onboarding EXCEPT !.micRequests = @ - 1,
                                               !.advanceTimers = @ + 1],
                            SetMic("granted")))

\* getUserMedia rejects: setMicPermission('denied')
MicDenied ==
  /\ onboarding.micRequests > 0
  /\ OnboardingStep(Enqueue([onboarding EXCEPT !.micRequests = @ - 1],
                            SetMic("denied")))

\* the timeout fires: setCurrentSlide(SLIDES.indexOf('ready')).  Its 500 ms
\* outlast the rendering of what was enqueued when it was set
AutoAdvance ==
  /\ onboarding.advanceTimers > 0
  /\ onboarding.pending = <<>>
  /\ OnboardingStep(Enqueue([onboarding EXCEPT !.advanceTimers = @ - 1],
                            SetSlide(IndexOf("ready"))))

\* React renders the updates of timer and promise callbacks
Render ==
  /\ onboarding.pending # <<>>
  /\ OnboardingStep(Flush(onboarding))

NextOnboarding ==
  \/ PressPrimary
  \/ PressBack
  \/ PressSkip
  \/ SelectSlide
  \/ KeyDown
  \/ QuerySettles
  \/ MicGranted
  \/ MicDenied
  \/ AutoAdvance
  \/ Render

SpecOnboarding == InitOnboarding /\ [][NextOnboarding]_vars

(* ---------------- AuthProvider ---------------- *)
StoredToken == "token0"
NewToken == "token1"
AuthUser == "user1"

\* the catch of login and register: the message of an ApiError, else a
\* fixed text
AuthErrorMessage(e) ==
  IF e.name = "ApiError" THEN e.message ELSE "An unexpected error occurred"

\* checkAuth once the token was read: no token, or the `me` request
CheckAuth(a) ==
  IF Falsy(a.token)
  THEN [a EXCEPT !.isLoading = FALSE,
                 !.calls = Append(@, [kind |-> "checkAuth", pc |-> "done"])]
  ELSE [a EXCEPT !.calls = Append(@, [kind |-> "checkAuth", pc |-> "me"])]

\* login / register up to the first await
AuthCall(a, kind) ==
  [a EXCEPT !.error = Null, !.isLoading = TRUE, !.made = @ + 1,
            !.calls = Append(@, [kind |-> kind, pc |-> kind])]

\* what follows the request that call c of a was awaiting, once it resolved
AuthResolved(a, c) ==
  LET call == a.calls[c] IN
  IF call.pc = "register"
  THEN [a EXCEPT !.calls[c].pc = "login"]
  ELSE IF call.pc = "login"
  THEN [a EXCEPT !.token = NewToken, !.calls[c].pc = "me"]
  ELSE IF call.kind = "checkAuth"
  THEN [a EXCEPT !.user = AuthUser, !.isLoading = FALSE, !.calls[c].pc = "done"]
  ELSE [a EXCEPT !.user = AuthUser, !.isLoading = FALSE, !.calls[c].pc = "done",
                 !.route = IF call.kind = "login" THEN "/app" ELSE "/app/onboarding"]

\* the same once it rejected with error e: the catch and the finally
AuthRejected(a, c, e) ==
  IF a.calls[c].kind = "checkAuth"
  THEN [a EXCEPT !.token = Null, !.isLoading = FALSE, !.calls[c].pc = "failed"]
  ELSE [a EXCEPT !.error = AuthErrorMessage(e), !.isLoading = FALSE,
                 !.calls[c].pc = "failed"]

\* logout: clearAuthToken(); setUser(null); router.push('/')
Logout(a) ==
  [a EXCEPT !.token = Null, !.user = Null, !.route = "/", !.made = @ + 1]

\* mounted with or without a token in storage: the checkAuth effect runs
InitAuth ==
  /\ InitHarness /\ InitScreen
  /\ breath = NoBreath /\ mbreath = NoMBreath /\ onboarding = NoOnboarding
  /\ \E t \in {Null, StoredToken} :
       auth = CheckAuth([NoAuth EXCEPT !.mounted = TRUE, !.token = t])

AuthStep(a2) ==
  /\ auth' = a2
  /\ UNCHANGED <<harnessVars, screenVars, breath, mbreath, onboarding>>

AwaitingAuth == {c \in 1..Len(auth.calls) : auth.calls[c].pc \notin {"done", "failed"}}

CallLogin ==
  /\ auth.made < MaxAuthCalls
  /\ AuthStep(AuthCall(auth, "login"))

CallRegister ==
  /\ auth.made < MaxAuthCalls
  /\ AuthStep(AuthCall(auth, "register"))

CallLogout ==
  /\ auth.made < MaxAuthCalls
  /\ AuthStep(Logout(auth))

ClearError ==
  /\ auth.error # Null
  /\ AuthStep([auth EXCEPT !.error = Null])

AuthRequestResolves ==
  \E c \in AwaitingAuth : AuthStep(AuthResolved(auth, c))

AuthRequestRejects ==
  \E c \in AwaitingAuth, f \in Failures :
    AuthStep(AuthRejected(auth, c, ApiFetchError(f)))

NextAuth ==
  \/ CallLogin
  \/ CallRegister
  \/ CallLogout
  \/ ClearError
  \/ AuthRequestResolves
  \/ AuthRequestRejects

SpecAuth == InitAuth /\ [][NextAuth]_vars

(* ======================= properties ======================= *)
NonTerminal == {"pending", "processing"}
Done == poller.pc = "done"
Last(s) == s[Len(s)]
AllBut(s) == {s[i].status : i \in 1..(Len(s) - 1)}
All(s) == {s[i].status : i \in 1..Len(s)}
Completions == Cardinality({i \in 1..Len(observed) : observed[i].status = "completed"})
\* what a caller can tell two errors apart by: the class name and the status
Kind(e) == <<e.name, e.status>>

\* C1: after k pending/processing responses followed by `completed` the
\* report endpoint has been called exactly once (and not at all before
\* `completed` was observed, nor again afterwards), and the poller ends by
\* returning the report that call delivered (a failing report request being
\* the only other way it can end)
C1_ReportFetchedOnceAfterCompleted ==
  /\ Completions = 0 => poller.reportCalls = 0
  /\ (Len(observed) >= 1 /\ Last(observed).status = "completed"
        /\ AllBut(observed) \subseteq NonTerminal)
     => /\ poller.reportCalls = 1
        /\ Completions = 1
        /\ Len(observed) <= poller.maxAttempts
        /\ poller.pc \in {"report", "done"}
        /\ Done => \/ poller.exit = "report" /\ poller.report \in Reports
                   \/ poller.exit = "reportError" /\ Len(faults) = 1
        /\ (Done /\ faults = <<>>) => poller.exit = "report"

C1_Witness ==
  /\ Done /\ poller.exit = "report" /\ poller.report = "reportB"
  /\ Len(observed) = 3 /\ poller.reportCalls = 1 /\ poller.statusCalls = 3

\* C2: a response sequence ending in `failed` makes the poller raise the
\* ProcessingFailed error (ApiError, status 500) whose message is the
\* server's error_message, or "Processing failed" when the server supplied
\* none (null or empty), and the report endpoint is never called
C2_FailedRaisesProcessingFailed ==
  (Len(observed) >= 1 /\ Last(observed).status = "failed")
  => /\ Done
     /\ poller.exit = "failed"
     /\ poller.err.name = "ApiError"
     /\ poller.err.status = ProcessingFailedStatus
     /\ poller.err.message =
          (IF Last(observed).error_message \in {Null, ""}
           THEN "Processing failed" ELSE Last(observed).error_message)
     /\ poller.report = Null
     /\ poller.reportCalls = 0

C2_Witness ==
  /\ Done /\ Len(observed) = 2 /\ Last(observed).status = "failed"
  /\ Last(observed).error_message = "Audio too short"
  /\ poller.err.message = "Audio too short"

\* C3: when every status query was answered and every answer was pending or
\* processing, the poller ends with the Timeout error after exactly
\* maxAttempts status calls (120 with the web default) and no report call
C3_TimeoutAfterMaxAttempts ==
  /\ poller.statusCalls <= poller.maxAttempts
  /\ (Done /\ Len(observed) = poller.statusCalls /\ All(observed) \subseteq NonTerminal)
     => /\ poller.exit = "timeout"
        /\ Kind(poller.err) = <<"ApiError", TimeoutStatus>>
        /\ poller.statusCalls = poller.maxAttempts
        /\ poller.reportCalls = 0
        /\ poller.report = Null

C3_Witness ==
  /\ Done /\ poller.exit = "timeout" /\ poller.maxAttempts = 120
  /\ poller.statusCalls = 120 /\ Len(observed) = 120 /\ poller.reportCalls = 0

\* C4 (as claimed): with a callback supplied and every query answered, it has
\* been invoked once per status query made, in order, each time with the
\* status string observed
C4_CallbackOncePerQueryWithString ==
  (poller.onProgress /\ Done /\ faults = <<>>)
  => /\ Len(progressLog) = poller.statusCalls
     /\ \A i \in 1..Len(progressLog) :
          i <= Len(observed)
          /\ progressLog[i] = [form |-> "string", status |-> observed[i].status,
                               error_message |-> Null]

\* C4 (amended): with a callback supplied, it is invoked exactly once per
\* status query that returned a response (the terminal ones included, a
\* rejected query giving none), in the order of the attempts; the web poller
\* passes the status string observed, the mobile poller passes the status
\* response object holding it
C4_CallbackOncePerResponse ==
  /\ poller.onProgress
     => /\ Len(progressLog) = Len(observed)
        /\ poller.progressCalls = Len(observed)
        /\ \A i \in 1..Len(progressLog) :
             /\ progressLog[i].status = observed[i].status
             /\ poller.impl = "web" => progressLog[i].form = "string"
             /\ poller.impl = "mobile"
                  => /\ progressLog[i].form = "response"
                     /\ progressLog[i].error_message = observed[i].error_message
  /\ ~poller.onProgress => progressLog = <<>> /\ poller.progressCalls = 0
  /\ Len(observed) = poller.statusCalls
        - (IF poller.pc = "status" \/ poller.exit = "statusError" THEN 1 ELSE 0)

C4_Witness ==
  /\ Done /\ poller.onProgress /\ poller.impl = "mobile"
  /\ Len(progressLog) = 3
  /\ progressLog[1].status = "pending" /\ progressLog[2].status = "processing"
  /\ progressLog[3].status = "completed"

\* C5: a status query that fails (fetch rejects or a non-2xx answer) ends the
\* poller at once with that error: no status query follows it, the failed
\* one is not repeated, and the report endpoint is not called
C5_StatusFailurePropagates ==
  (Len(faults) >= 1 /\ faults[1][1] = "status")
  => /\ Done
     /\ poller.exit = "statusError"
     /\ Len(faults) = 1
     /\ poller.statusCalls = Len(observed) + 1
     /\ poller.reportCalls = 0
     /\ poller.report = Null
     /\ IF faults[1][2].net
        THEN poller.err.name = "TypeError"
        ELSE Kind(poller.err) = <<"ApiError", faults[1][2].code>>

C5_Witness ==
  /\ Done /\ poller.exit = "statusError" /\ Len(observed) = 2
  /\ poller.statusCalls = 3 /\ poller.err.status = 500

\* C6: the error raised on exhaustion of the attempts and the error raised on
\* a `failed` status never have the same kind (class name and status)
C6_TimeoutDistinctFromProcessingFailed ==
  /\ poller.exit = "timeout"
     => \A impl \in Impls, m \in ErrorMessages :
          Kind(poller.err) # Kind(ProcessingFailedError(impl, m))
  /\ poller.exit = "failed"
     => \A impl \in Impls : Kind(poller.err) # Kind(TimeoutError(impl))
  /\ poller.exit = "timeout" => poller.err.status = 408
  /\ poller.exit = "failed" => poller.err.status = 500

C6_Witness ==
  /\ Done /\ poller.exit = "timeout" /\ poller.statusCalls = 2
  /\ poller.err.status = 408

\* C7 (as claimed): the error raised because a status or report request
\* failed never has the kind of the error raised on exhaustion of the attempts
C7_RequestFailureDistinctFromTimeout ==
  poller.exit \in {"statusError", "reportError"}
  => \A impl \in Impls : Kind(poller.err) # Kind(TimeoutError(impl))

\* C8 (as claimed): once the caller has gone away (the screen is unmounted,
\* the only way it has to give up a flow) a poller of that screen that is
\* still running issues no further status call and invokes no further
\* progress callback
C8_NoPollingAfterCancel ==
  [][\A h \in HandlerIds :
       (~mounted /\ handlers[h].pc = "poll")
       => /\ handlers'[h].poll.statusCalls <= handlers[h].poll.statusCalls
          /\ handlers'[h].poll.progressCalls <= handlers[h].poll.progressCalls]_vars

Denied == {h \in HandlerIds : handlers[h].perm = "denied"}
Granted == {h \in HandlerIds : handlers[h].perm = "granted"}

\* C9: a start whose permission request is denied ends at once with the
\* permission error passed to setError, sets no phase and starts neither a
\* recording nor the metering timer; while permission is denied the phase
\* stays idle, no recording or timer exists, and an error stays shown
C9_DeniedStartStaysIdle ==
  /\ \A h \in Denied :
       /\ handlers[h].kind = "start"
       /\ handlers[h].pc = "done"
       /\ handlers[h].set = <<>>
       /\ ~handlers[h].startedHw
       /\ handlers[h].shown = PermissionError
  /\ (Denied # {} /\ Granted = {})
       => /\ phase = "idle"
          /\ hwRecording = {} /\ timers = {}
          /\ recordingRef = 0 /\ intervalRef = 0
          /\ ~recState.isRecording
  /\ (mounted /\ nHandlers \in Denied) => error # Null
  /\ (mounted /\ nHandlers \in Denied /\ \A h \in 1..nHandlers : h \in Denied)
       => error = PermissionError

C9_Witness ==
  /\ mounted /\ nHandlers = 2 /\ Denied = {1, 2} /\ handlers[2].pc = "done"
  /\ phase = "idle" /\ error = PermissionError /\ hwRecording = {}

NoAudioStops ==
  {h \in HandlerIds : handlers[h].kind = "stop" /\ handlers[h].returned
                        /\ handlers[h].uri \in {Null, ""}}

\* C10: a stop whose recorder.stopRecording() returns null or an empty uri
\* ends at once: its only setPhase is setPhase('idle'), it passes the
\* no-audio message to setError, and it calls neither the upload nor the
\* poller; an error stays shown until the next start, and in a single
\* start/stop cycle the screen is left idle showing that message
C10_NoAudioSkipsUpload ==
  /\ \A h \in NoAudioStops :
       /\ handlers[h].pc = "done"
       /\ handlers[h].set = <<"idle">>
       /\ handlers[h].shown = NoRecordingError
       /\ handlers[h].uploadCalls = 0
       /\ handlers[h].poll.pc = "new"
  /\ (mounted /\ nHandlers \in NoAudioStops) => error # Null
  /\ (mounted /\ nHandlers = 2 /\ 2 \in NoAudioStops)
       => (phase = "idle" /\ error = NoRecordingError)

C10_Witness ==
  /\ mounted /\ handlers[2].kind = "stop" /\ handlers[2].returned
  /\ handlers[2].uri = "" /\ nHandlers = 2
  /\ phase = "idle" /\ error = NoRecordingError

(* ---------------- the recording flow as a whole ---------------- *)
\* invocation h ends in this step through a catch block or the no-audio branch
FailsNow(h) ==
  handlers[h].pc # "done" /\ handlers'[h].pc = "done" /\ handlers'[h].shown # Null
\* invocation h has ended that way
HasFailed(h) == handlers[h].pc = "done" /\ handlers[h].shown # Null
\* invocation h starts a recording or issues an upload, status or report request
MakesCall(h) ==
  \/ handlers'[h].startedHw /\ ~handlers[h].startedHw
  \/ handlers'[h].uploadCalls > handlers[h].uploadCalls
  \/ handlers'[h].poll.statusCalls > handlers[h].poll.statusCalls
  \/ handlers'[h].poll.reportCalls > handlers[h].poll.reportCalls

\* C11 (as claimed): every invocation that fails leaves the mounted screen
\* with phase idle and a non-empty error message, and once an invocation
\* has failed, recordings and requests are made only by a cycle the user
\* started with a later tap on the record button
C11_FailureEndsIdleNoRetry ==
  [][\A h \in HandlerIds :
       /\ (mounted /\ FailsNow(h))
            => (phase' = "idle" /\ error' \notin {Null, ""})
       /\ \A f \in HandlerIds :
            (MakesCall(h) /\ HasFailed(f))
            => \E s \in (f + 1)..h : handlers[s].kind = "start"]_vars

\* the stop invocations whose flow is being uploaded or polled
InUploadOrPoll == {h \in HandlerIds : handlers[h].pc \in {"upload", "poll"}}

\* C12 (as claimed): no recording is running while a flow is being uploaded
\* or polled, and at most one flow is being uploaded or polled
C12_OneActiveFlow ==
  /\ Cardinality(InUploadOrPoll) <= 1
  /\ InUploadOrPoll # {} => hwRecording = {}

\* the invocations of a handler that are suspended in one of its awaits
InFlight(kind) ==
  {h \in HandlerIds : handlers[h].kind = kind /\ handlers[h].pc \notin {"none", "done"}}

\* C13 (as claimed): a second tap while the first invocation of the same
\* handler has not finished is a no-op, so recorder.startRecording() is in
\* progress at most once at a time, and so is handleStopRecording with its
\* recorder.stopRecording(), upload and poller
C13_DuplicateTapIsNoOp ==
  /\ Cardinality(InFlight("start")) <= 1
  /\ Cardinality(InFlight("stop")) <= 1

\* the stop invocations whose waitForCompletion call is in flight
PollersInFlight == {h \in HandlerIds : handlers[h].pc = "poll"}

Resolved == poller.exit # Null

\* C15: once the poller has returned the report or thrown (ProcessingFailed,
\* Timeout or a request's error) it is at its end and nothing follows: no
\* status or report request is issued, no progress callback is invoked and
\* no further answer or failure is delivered to it
C15_NothingAfterResolution ==
  [][/\ Resolved
          => /\ poller' = poller
             /\ observed' = observed
             /\ progressLog' = progressLog
             /\ faults' = faults
     /\ (poller'.exit # Null) => poller'.pc = "done"]_vars

C15_Witness ==
  /\ Resolved /\ poller.exit = "failed" /\ poller.onProgress
  /\ poller.statusCalls = 2 /\ Len(progressLog) = 2 /\ poller.maxAttempts = 3

\* the values of SessionStatus
DeclaredStatuses == {"pending", "processing", "completed", "failed"}

\* C16 (as claimed): a status answer outside the declared values is the last
\* one the poller takes: it throws at once, without waiting or asking again
C16_UnknownStatusIsFatal ==
  \A i \in 1..Len(observed) :
    observed[i].status \notin DeclaredStatuses
    => /\ i = Len(observed)
       /\ Done
       /\ poller.exit \notin {Null, "report"}
       /\ poller.err # NoError
       /\ poller.waits < i

\* C17 (as claimed): called without maxAttempts and interval against a server
\* that stays in pending, the poller waits 1000 ms between queries and throws
\* the Timeout after exactly 120 status queries
C17_DefaultsAre120And1s ==
  (server = "stuck" /\ Done)
  => /\ poller.exit = "timeout"
     /\ poller.statusCalls = 120
     /\ poller.interval = 1000

\* C17 (amended): called without maxAttempts and interval against a server
\* that stays in pending, pollSessionStatus (web) waits 1000 ms between
\* queries and throws the Timeout after exactly 120 status queries, while
\* api.waitForCompletion (mobile, the one RecordScreen calls) waits 2000 ms
\* and throws it after exactly 60; neither fetches the report
C17_DefaultsPerPoller ==
  server = "stuck"
  => /\ poller.maxAttempts = (IF poller.impl = "web" THEN 120 ELSE 60)
     /\ poller.interval = (IF poller.impl = "web" THEN 1000 ELSE 2000)
     /\ poller.statusCalls <= poller.maxAttempts
     /\ Done => /\ poller.exit = "timeout"
                /\ poller.statusCalls = poller.maxAttempts
                /\ poller.waits = poller.maxAttempts
                /\ poller.reportCalls = 0

C17_Witness ==
  /\ server = "stuck" /\ Done /\ poller.impl = "mobile"
  /\ poller.exit = "timeout" /\ poller.statusCalls = 60 /\ poller.interval = 2000

\* C18: when every status and report request settles and every wait elapses,
\* the poller eventually ends (returns the report or throws), whatever the
\* server answers; on the way it issues at most maxAttempts status queries
\* and at most one report request
C18_PollerTerminates ==
  /\ <>Done
  /\ [](poller.statusCalls <= poller.maxAttempts /\ poller.reportCalls <= 1)

C18_Witness ==
  /\ Done /\ poller.exit = "reportError" /\ poller.maxAttempts = 2
  /\ poller.statusCalls = 2 /\ poller.reportCalls = 1 /\ poller.waits = 1

\* the changes of phase the recording flow is made of (the results state is
\* the navigation to the Report screen with phase back at idle)
PhaseEdges ==
  {<<"idle", "recording">>, <<"recording", "uploading">>,
   <<"uploading", "processing">>, <<"recording", "idle">>,
   <<"uploading", "idle">>, <<"processing", "idle">>}

\* C19 (as claimed): the phase changes only along idle -> recording ->
\* uploading -> processing -> idle and from recording, uploading or
\* processing back to idle
C19_PhaseFollowsEdges ==
  [][phase' # phase => <<phase, phase'>> \in PhaseEdges]_vars

\* the poller of invocation h returns its report in this step
ReportArrives(h) ==
  handlers[h].pc = "poll" /\ handlers[h].poll.pc = "report"
  /\ handlers'[h].poll.exit = "report"

Terminal == {"completed", "failed"}
\* the answers so far after which the poller goes on
Pending == {i \in 1..Len(observed) : observed[i].status \notin Terminal}

\* C21: the poller waits one interval after each non-terminal answer and
\* none after a terminal one: the waits begun equal the non-terminal answers
\* received, a wait is in progress only right after a non-terminal answer,
\* and after k pending/processing answers followed by `completed` there have
\* been k+1 status calls, k waits and 1 report request
C21_OneWaitPerNonTerminal ==
  /\ poller.waits = Cardinality(Pending)
  /\ poller.pc = "sleep"
       => (Len(observed) >= 1 /\ Last(observed).status \notin Terminal)
  /\ (Len(observed) >= 1 /\ Last(observed).status \in Terminal)
       => (poller.pc \in {"report", "done"} /\ poller.waits = Len(observed) - 1)
  /\ (Len(observed) >= 1 /\ Last(observed).status = "completed"
        /\ AllBut(observed) \subseteq NonTerminal)
       => /\ poller.statusCalls = Len(observed)
          /\ poller.waits = Len(observed) - 1
          /\ poller.reportCalls = 1

C21_Witness ==
  /\ Done /\ poller.exit = "report" /\ Len(observed) = 3
  /\ observed[1].status = "processing" /\ observed[2].status = "processing"
  /\ observed[3].status = "completed"
  /\ poller.statusCalls = 3 /\ poller.waits = 2 /\ poller.reportCalls = 1

\* the report request of invocation h's poller fails in this step
ReportFails(h) ==
  handlers[h].pc = "poll" /\ handlers[h].poll.pc = "report"
  /\ handlers'[h].poll.exit = "reportError"

\* C22: when the report request made after `completed` fails, the poller
\* ends with that failure (it had made one report request and makes no
\* status or report request in or after that step), the invocation ends in
\* its catch with the failure's message, nothing is navigated to, and the
\* mounted screen is at phase idle showing that message
C22_ReportFailureEndsIdle ==
  [][\A h \in HandlerIds :
       /\ ReportFails(h)
            => /\ handlers[h].poll.reportCalls = 1
               /\ handlers'[h].poll.pc = "done"
               /\ handlers'[h].pc = "done"
               /\ ~MakesCall(h)
               /\ \E f \in ScreenFailures :
                    handlers'[h].shown = HandleResponseError(f).message
               /\ navigated' = navigated
               /\ mounted => (phase' = "idle" /\ error' = handlers'[h].shown)
       /\ handlers[h].poll.exit = "reportError"
            => (handlers'[h] = handlers[h] /\ ~MakesCall(h))]_vars

C22_Witness ==
  /\ mounted /\ nHandlers = 2 /\ handlers[2].pc = "done"
  /\ handlers[2].poll.exit = "reportError"
  /\ handlers[2].set = <<"uploading", "processing", "idle">>
  /\ phase = "idle" /\ error = "Internal Server Error"
  /\ navigated = <<>>

Busy == {"recording", "uploading", "processing"}

\* C23: on a mounted screen a phase of recording, uploading or processing
\* is followed by phase idle, given that every awaited call settles and the
\* user presses stop while it is shown (so given that a stop invocation is
\* under way or a tap is still to come); and the mounted screen comes back
\* to idle only with a navigation to the Report screen and the recorder
\* reset, or with an error shown
C23_BusyLeadsToIdle ==
  /\ [](( /\ mounted /\ phase \in Busy
          /\ (InFlight("stop") # {} \/ nHandlers < TapLimit) )
        => <>(phase = "idle"))
  /\ [][(mounted' /\ phase \in Busy /\ phase' = "idle")
        => \/ Len(navigated') > Len(navigated) /\ recState' = IdleRecState
           \/ error' # Null]_vars

C23_Witness ==
  /\ mounted /\ phase = "idle" /\ nHandlers = 2
  /\ handlers[2].kind = "stop" /\ handlers[2].pc = "done"
  /\ handlers[2].poll.exit = "timeout"
  /\ handlers[2].set = <<"uploading", "processing", "idle">>
  /\ error = "Timeout waiting for processing to complete"

\* C24 (as claimed): the recordings started and not yet stopped and unloaded
\* are at most the one recordingRef points to, and the interval timers set
\* and not yet cleared are at most the one intervalRef points to
C24_RecorderTracksResources ==
  /\ hwRecording \subseteq {recordingRef}
  /\ timers \subseteq {intervalRef}

\* maxAttempts arguments that leave no attempt: zero and negative numbers
NoAttempts == {0} \cup {-n - 1 : n \in 1..MaxAttemptsArg}

\* C25: a poller called with maxAttempts <= 0 throws the Timeout error from
\* the call itself: it has issued no status request, invoked no callback,
\* begun no wait and requested no report, and nothing was delivered to it
C25_NoAttemptsTimesOutAtOnce ==
  /\ \A impl \in Impls, n \in NoAttempts, cb \in BOOLEAN :
       LET q == PollCall(impl, n, Omitted, cb) IN
       /\ q.maxAttempts = n
       /\ q.pc = "done" /\ q.exit = "timeout" /\ q.err = TimeoutError(impl)
       /\ q.statusCalls = 0 /\ q.progressCalls = 0
       /\ q.waits = 0 /\ q.reportCalls = 0 /\ q.report = Null
  /\ poller.maxAttempts <= 0
       => /\ Done /\ poller.exit = "timeout"
          /\ Kind(poller.err) = <<"ApiError", TimeoutStatus>>
          /\ poller.statusCalls = 0 /\ poller.progressCalls = 0
          /\ poller.waits = 0 /\ poller.reportCalls = 0
          /\ observed = <<>> /\ progressLog = <<>> /\ faults = <<>>

C25_Witness ==
  /\ Done /\ poller.maxAttempts = 0 /\ poller.exit = "timeout"
  /\ poller.impl = "mobile" /\ poller.onProgress
  /\ poller.statusCalls = 0 /\ poller.reportCalls = 0

(* ---------------- the breathing components ---------------- *)
\* C26 (as claimed): with cycles = N > 0, while the web BreathCircle stays
\* mounted and active onBreathComplete has been invoked at most once, and
\* only with N cycles completed; the cycle counter stays within N and the
\* position shown in the label stays within N
C26_CompletesOnceWithinCycles ==
  (breath.mounted /\ breath.isActive /\ breath.cycles > 0)
  => /\ breath.completeCalls <= 1
     /\ breath.completeCalls = 1 => breath.cycleCount = breath.cycles
     /\ breath.cycleCount <= breath.cycles
     /\ CycleLabel(breath)[1] <= CycleLabel(breath)[2]

MPhaseEdges == {<<"inhale", "hold">>, <<"hold", "exhale">>, <<"exhale", "inhale">>}

\* C27: in the mobile BreathCircle (whole positive cycles and seconds)
\* currentCycle stays within 1..cycles and secondsRemaining at 1 or above;
\* while active the phase changes only inhale -> hold -> exhale -> inhale,
\* the last with currentCycle one higher and the others with it unchanged;
\* onComplete is invoked at most once, only at the timeout of the exhale of
\* cycle `cycles`, which leaves isActive false and isComplete true, and it
\* has been invoked exactly when isComplete is true
C27_BreathRunIsOrderly ==
  /\ [](/\ mbreath.currentCycle \in 1..mbreath.cycles
        /\ mbreath.secondsRemaining >= 1
        /\ mbreath.completeCalls = (IF mbreath.isComplete THEN 1 ELSE 0)
        /\ mbreath.isComplete
             => /\ ~mbreath.isActive
                /\ mbreath.phase = "exhale"
                /\ mbreath.currentCycle = mbreath.cycles)
  /\ [][/\ (mbreath.isActive /\ mbreath'.isActive /\ mbreath'.phase # mbreath.phase)
             => /\ <<mbreath.phase, mbreath'.phase>> \in MPhaseEdges
                /\ mbreath'.currentCycle =
                     mbreath.currentCycle + (IF mbreath.phase = "exhale" THEN 1 ELSE 0)
        /\ (mbreath.isActive /\ mbreath'.phase = mbreath.phase)
             => mbreath'.currentCycle = mbreath.currentCycle
        /\ mbreath'.completeCalls # mbreath.completeCalls
             => /\ mbreath.isActive /\ mbreath.phase = "exhale"
                /\ mbreath.currentCycle = mbreath.cycles
                /\ ~mbreath'.isActive /\ mbreath'.isComplete]_vars

C27_Witness ==
  /\ mbreath.mounted /\ mbreath.isComplete /\ ~mbreath.isActive
  /\ mbreath.completeCalls = 1 /\ mbreath.cycles = 3
  /\ mbreath.currentCycle = 3 /\ mbreath.phase = "exhale"
  /\ mbreath.secondsRemaining = 1

(* ---------------- the onboarding slides ---------------- *)
\* C28 (as claimed): currentSlide is an index of SLIDES after every event,
\* and Continue on the last slide and Back on the first change nothing
C28_SlideIndexValid ==
  /\ onboarding.currentSlide \in 0..(Len(SLIDES) - 1)
  /\ onboarding.currentSlide = Len(SLIDES) - 1
       => Flush(HandleNext(onboarding)) = Flush(onboarding)
  /\ onboarding.currentSlide = 0
       => Flush(HandleBack(onboarding)) = Flush(onboarding)

\* C29 (as claimed): on the microphone slide after a denial, pressing the
\* primary button, then labelled `Continue anyway`, takes the page past the
\* microphone slide
C29_ContinueAnywayAdvances ==
  [][(PressPrimary /\ PrimaryLabel(onboarding) = "Continue anyway")
     => onboarding'.currentSlide > IndexOf("microphone")]_vars

(* ---------------- authentication ---------------- *)
\* call c of login or register ends with a failure in this step
AuthFails(c) ==
  /\ c \in 1..Len(auth.calls)
  /\ auth.calls[c].kind \in {"login", "register"}
  /\ auth.calls[c].pc # "failed" /\ auth'.calls[c].pc = "failed"

\* C30 (as claimed): when a login or register call fails, at whichever of
\* its requests, no token is left in storage, user is null, isLoading is
\* false and error is set; after logout the token is cleared and user is null
C30_FailedLoginLeavesNoToken ==
  [][/\ \A c \in 1..MaxAuthCalls + 1 :
          AuthFails(c)
          => /\ auth'.token = Null
             /\ auth'.user = Null
             /\ ~auth'.isLoading
             /\ auth'.error # Null
     /\ CallLogout => (auth'.token = Null /\ auth'.user = Null)]_vars

====
